---- MODULE Spec2Model ----
(***************************************************************************)
(* A model of nauti-netbox: the NetboxClient (client.py), whose requests   *)
(* all pass through one asyncio.Semaphore and whose paginate fans page     *)
(* requests out concurrently, and the NetboxSource (source.py) that        *)
(* creates the client on login; the collections (collections/*.py), whose  *)
(* add, update and delete operations build one request per key and hand    *)
(* the batch to the source's update; and the auditor (auditors.py) that    *)
(* fetches the target device by device before the keys are made.           *)
(*                                                                         *)
(* Scheduling is asyncio's: one step of the model is what one coroutine    *)
(* runs between two suspension points.  The semaphore is the one of the    *)
(* runtime setup.py declares (Python 3.8): acquire loops while the value   *)
(* is not positive, release increments the value and wakes the first       *)
(* waiter, which re-checks the value when it is resumed.                   *)
(***************************************************************************)
EXTENDS Integers, Sequences, FiniteSets, TLC

\* ------------------------------------------------------------------ bounds
\* Size of the permit pool: API_RATE_LIMIT is 100 in client.py, a class
\* attribute a subclass may set; the model draws it from 1..MaxPermits.
MaxPermits == 2
\* Number of records the remote holds, 0..MaxCount (and the scenario's 250).
MaxCount == 4
\* Largest number of page requests of one paginate call.
MaxPages == 3
\* Largest explicit page_sz argument (0 stands for None: the default size).
MaxPageSz == 2
\* Number of other requesters (lookup fetches, mutation tasks) of the client
\* that run beside a paginate call.
NBg == 1
\* Number of requesters of the client when only the permit pool is studied.
NFair == 4
\* Number of login calls and of requests sent through a source's client.
MaxLogins == 2
MaxSrcCalls == 2

\* Number of keys of one batch handed to add_items, update_items or
\* delete_items.
NKeys == 2
\* Largest limit of the task runner (100 at the call sites): 1..MaxLimit.
MaxLimit == 2
\* Number of hostnames, and largest number of items of the origin and of
\* records of the remote, in one reconciliation cycle.
NHosts == 2
MaxItems == 2
\* Number of reconciliation cycles run on one collection instance.
MaxCycles == 2
\* Largest value of an item in the diff of two key sets: 1..MaxVal.
MaxVal == 4

\* ------------------------------------------------------- program constants
DEFAULT_PAGE_SZ == 100

\* --------------------------------------------------------------- variables
VARIABLES
    rate_limit,   \* the size N of the permit pool of this client
    s4_value,     \* NetboxClient._api_s4._value
    s4_waiters,   \* NetboxClient._api_s4._waiters: requests whose future is pending
    rpc,          \* per request: "none", "new", "waiting", "woken", "holding", "done"
    rout,         \* per request: how its underlying call ended ("-" before)
    rref,         \* per request: the params object it was given (0: none)
    seen,         \* per request: the params the transport read when it sent the call
    calls,        \* per request: number of underlying network calls performed
    objs,         \* the heap of params dicts, by object id 1..Len(objs)
    filters,      \* paginate's filters argument: 0 for None, else an object id
    filters0,     \* the content of the caller's filters when paginate is called
    page_sz,      \* paginate's page_sz argument: 0 for None
    remoteCount,  \* number of records the remote holds for the url and filters
    pcP,          \* paginate: "call", "probing", "gathering", "returned", "failed"
    params,       \* paginate's local params: an object id (0 before the call)
    count,        \* paginate's local count (0 before the probe answered)
    tasks,        \* paginate's local tasks: the page requests, in creation order
    result,       \* what paginate returned
    err,          \* the error paginate raised
    gather_exc,   \* the page request whose exception gather's future holds (0: none)
    firstDone,    \* the page request whose call completed first (0: none yet)
    env,          \* os.environ: NETBOX_ADDR and NETBOX_TOKEN
    initargs,     \* NetboxSource._client_initargs: base_url and token
    client,       \* NetboxSource.client: 0 for None, else an index of clients
    clients,      \* every NetboxClient created so far
    login_exc,    \* what the last login raised ("none": it returned)
    logout_exc,   \* what the last logout raised ("none": it returned)
    nlogin,       \* number of login calls so far
    src_calls,    \* number of requests sent through the source's client
    task_limit,   \* the limit given to the task runner (iawait, igather)
    col,          \* the collection an operation is invoked on
    op,           \* the operation: "add", "update" or "delete"
    items,        \* the operation's items: the fields of key k at items[k]
    cache,        \* Collection.cache of the collection: the names in it
    bpc,          \* the operation: "call", "prefetch", "build", "dispatch",
                  \*   "returned", "raised", "lookup_failed"
    tstate,       \* per key: "none", "skipped", "pending", "running", "settled"
    outcome,      \* per key: "-", "neutral", "ok", "rejected", "error"
    ncalls,       \* per key: network calls issued by its task
    cb,           \* per key: number of times the callback was invoked for it
    batch_exc,    \* what the operation raised ("none": nothing)
    task_url,     \* per key: the row id in the URL of its task's request (0: none)
    origin,       \* Auditor.origin.items: key -> item value
    remote,       \* the remote's records of the collection: key -> value
    iawait_raises,\* whether the runner of the fetches re-raises a task's error
    entry,        \* how the target is fetched: "fetch_target" or "fetch_keys"
    source_records, \* Collection.source_records of the target
    ftasks,       \* the fetch tasks of this cycle: [device, name, st, cause, exc]
    apc,          \* the cycle: "idle", "fetching", "keyed", "diffed", "aborted"
    target_keys,  \* the target's key -> item map made by make_keys
    diffres,      \* the result of the diff
    cycle_exc,    \* the error the cycle aborted with ("none": nothing)
    ncycle,       \* number of cycles started on this collection instance
    lag_recs,     \* NetboxPortChanCollection.cache[self]["lag_recs"]: its keys
    cache_writers \* the fetch tasks of this cycle that wrote the LAG cache

semVars == <<rate_limit, s4_value, s4_waiters, rpc, rout, rref, seen, calls>>
pagVars == <<objs, filters, filters0, page_sz, remoteCount, pcP, params, count, tasks,
             result, err, gather_exc, firstDone>>
srcVars == <<env, initargs, client, clients, login_exc, logout_exc, nlogin,
             src_calls>>
colVars == <<col, op, items, cache, bpc, tstate, outcome, ncalls, cb, batch_exc,
             task_url>>
audVars == <<origin, remote, iawait_raises, entry, source_records, ftasks, apc,
             target_keys, diffres, cycle_exc, ncycle, lag_recs, cache_writers>>
drvVars == <<task_limit, colVars, audVars>>
vars == <<semVars, pagVars, srcVars, drvVars>>

\* ---------------------------------------------------------------- requests
Probe == 0
Pages == 1..MaxPages
Bg == {0 - i : i \in 1..NBg}
FairReq == {0 - i : i \in 1..NFair}
Others == Bg \cup FairReq
Req == Others \cup {Probe} \cup Pages

\* How an underlying call can end: a 2xx response with the envelope
\* ("ok"), a non-success response, whose body is an error document without
\* "results" ("status"), or a raised transport error ("raise").
Outcomes == {"ok", "status", "raise"}

EmptyDict == [k \in {} |-> 0]
NoErr == [kind |-> "none", req |-> 0]

\* dict[key] = value
DictSet(d, key, value) ==
    [k \in DOMAIN d \cup {key} |-> IF k = key THEN value ELSE d[k]]

\* The dict a params reference denotes (a request without params: {}).
ParamsOf(heap, ref) == IF ref = 0 THEN EmptyDict ELSE heap[ref]

\* ------------------------------------------------------------ the semaphore
\* asyncio.Semaphore.acquire: "while self._value <= 0" the caller waits.
LockedOffByOne(v) == v < 0
Locked(v) == v <= 0

\* "async with self._api_s4" releases on every exit of the block.
ReleasedOnReturnOnly(out) == out # "raise"
ReleasedOn(out) == out \in Outcomes

\* acquire, as run by request r with the request states pcs, params
\* references refs and heap: take a permit and send the underlying call
\* (the transport reads the params now), or queue a future and wait.
Acquire(r, pcs, refs, heap) ==
    IF ~Locked(s4_value)
    THEN /\ s4_value' = s4_value - 1
         /\ s4_waiters' = s4_waiters
         /\ rpc' = [pcs EXCEPT ![r] = "holding"]
         /\ seen' = [seen EXCEPT ![r] = ParamsOf(heap, refs[r])]
         /\ calls' = [calls EXCEPT ![r] = @ + 1]
    ELSE /\ s4_value' = s4_value
         /\ s4_waiters' = Append(s4_waiters, r)
         /\ rpc' = [pcs EXCEPT ![r] = "waiting"]
         /\ seen' = seen
         /\ calls' = calls

\* The request states after request r left the "async with" block with
\* outcome out: release() increments the value and _wake_up_next() sets the
\* result of the first waiter's future.
AfterExitNoWake(r, out) == [rpc EXCEPT ![r] = "done"]
AfterExit(r, out) ==
    LET done == [rpc EXCEPT ![r] = "done"]
    IN  IF ReleasedOn(out) /\ s4_waiters # << >>
        THEN [done EXCEPT ![Head(s4_waiters)] = "woken"]
        ELSE done

Exit(r, out) ==
    /\ s4_value' = IF ReleasedOn(out) THEN s4_value + 1 ELSE s4_value
    /\ s4_waiters' = IF ReleasedOn(out) /\ s4_waiters # << >>
                     THEN Tail(s4_waiters) ELSE s4_waiters
    /\ rout' = IF r \in Others THEN rout ELSE [rout EXCEPT ![r] = out]

\* A task starts running NetboxClient.request.  The event loop starts the
\* tasks gather created in the order of their creation.
Request(r) ==
    /\ r # Probe
    /\ rpc[r] = "new"
    /\ \A q \in Pages : q < r => rpc[q] # "new"
    /\ Acquire(r, rpc, rref, objs)
    /\ UNCHANGED <<rate_limit, rout, rref, pagVars, srcVars, drvVars>>

\* A waiter whose future was set is resumed: acquire's loop tests the value
\* again.
Resume(r) ==
    /\ rpc[r] = "woken"
    /\ Acquire(r, rpc, rref, objs)
    /\ UNCHANGED <<rate_limit, rout, rref, pagVars, srcVars, drvVars>>

\* The underlying call of a page request ends; gather's future takes the
\* first exception.
Complete(r, out) ==
    /\ r \in Pages
    /\ rpc[r] = "holding"
    /\ Exit(r, out)
    /\ rpc' = AfterExit(r, out)
    /\ gather_exc' = IF out = "raise" /\ gather_exc = 0 THEN r ELSE gather_exc
    /\ firstDone' = IF firstDone = 0 THEN r ELSE firstDone
    /\ UNCHANGED <<rate_limit, rref, seen, calls, srcVars, drvVars>>
    /\ UNCHANGED <<objs, filters, filters0, page_sz, remoteCount, pcP, params,
                   count, tasks, result, err>>

\* The underlying call of another requester ends; the requester may issue
\* its next request.
CompleteOther(r, out) ==
    /\ r \in Others
    /\ rpc[r] = "holding"
    /\ Exit(r, out)
    /\ rpc' = [AfterExit(r, out) EXCEPT ![r] = "new"]
    /\ calls' = [calls EXCEPT ![r] = 0]
    /\ UNCHANGED <<rate_limit, rref, seen, pagVars, srcVars, drvVars>>

\* ---------------------------------------------------------------- the remote
\* The records the remote holds are 1..remoteCount; a GET with limit and
\* offset answers the count and the records offset+1 .. offset+limit.
ServerResults(d, n) ==
    LET off == IF "offset" \in DOMAIN d THEN d["offset"] ELSE 0
        last == IF off + d["limit"] < n THEN off + d["limit"] ELSE n
    IN  IF off >= n THEN << >> ELSE [i \in 1..(last - off) |-> off + i]

\* Response.raise_for_status()
RaiseForStatus(out) == IF out = "status" THEN "HTTPStatusError" ELSE "none"

\* What reading task_r.json()["results"] raises for a response: the error
\* document of a non-success response has no "results" (KeyError; a body
\* that is not JSON fails one step earlier, in json()).
ResultsError(out) == IF out = "status" THEN "KeyError" ELSE "none"

\* ------------------------------------------------------------------ paginate
\* range(start, stop, step)
RECURSIVE Range(_, _, _)
RangeFloor(start, stop, step) ==
    [i \in 1..(stop \div step) |-> start + (i - 1) * step]
RangeInclusive(start, stop, step) ==
    [i \in 1..((stop \div step) + 1) |-> start + (i - 1) * step]
Range(start, stop, step) ==
    IF start >= stop THEN << >>
    ELSE <<start>> \o Range(start + step, stop, step)

\* The object a page request is given: params.copy() is a new object.
PageRefAlias(heap, p) == p
PageRef(heap, p) == Len(heap) + 1

\* The loop of paginate: for each offset, params["offset"] = offset and a
\* request is created with params.copy().
RECURSIVE FanOut(_, _, _, _)
FanOut(heap, p, offs, refs) ==
    IF offs = << >>
    THEN [heap |-> heap, refs |-> refs]
    ELSE LET h1 == [heap EXCEPT ![p] = DictSet(@, "offset", Head(offs))]
             ref == PageRef(h1, p)
             h2 == IF ref > Len(h1) THEN Append(h1, h1[p]) ELSE h1
         IN  FanOut(h2, p, Tail(offs), Append(refs, ref))

\* asyncio.gather returns the results in the order of its arguments.
GatherAsCompleted(ts, first) ==
    IF first = 0 THEN ts
    ELSE <<first>> \o SelectSeq(ts, LAMBDA r : r # first)
GatherOrder(ts, first) == ts

\* chain.from_iterable(task_r.json()["results"] for task_r in task_results)
RECURSIVE Flatten(_)
Flatten(ts) ==
    IF ts = << >> THEN << >>
    ELSE ServerResults(seen[Head(ts)], remoteCount) \o Flatten(Tail(ts))

SeqToSet(s) == {s[i] : i \in 1..Len(s)}

\* The first response of a sequence whose json()["results"] raises, 0 when
\* none does.
RECURSIVE FirstBad(_)
FirstBad(ts) ==
    IF ts = << >> THEN 0
    ELSE IF ResultsError(rout[Head(ts)]) # "none" THEN Head(ts)
    ELSE FirstBad(Tail(ts))

\* "filters or {}" is a new dict when filters is None or an empty dict, and
\* is the caller's own dict otherwise.
ParamsIsNewAlways(f, heap) == TRUE
ParamsIsNew(f, heap) == f = 0 \/ DOMAIN heap[f] = {}

\* paginate is called: params = filters or {}; params["limit"] = 1; and the
\* probe runs into request() up to its first suspension.
PaginateCall ==
    /\ pcP = "call"
    /\ LET fresh == ParamsIsNew(filters, objs)
           p == IF fresh THEN Len(objs) + 1 ELSE filters
           h0 == IF fresh THEN Append(objs, EmptyDict) ELSE objs
       IN  /\ params' = p
           /\ objs' = [h0 EXCEPT ![p] = DictSet(@, "limit", 1)]
    /\ rref' = [rref EXCEPT ![Probe] = params']
    /\ Acquire(Probe, rpc, rref', objs')
    /\ pcP' = "probing"
    /\ UNCHANGED <<rate_limit, rout, srcVars, drvVars>>
    /\ UNCHANGED <<filters, filters0, page_sz, remoteCount, count, tasks, result,
                   err,
                   gather_exc, firstDone>>

\* The probe's call ends and paginate goes on up to "await asyncio.gather".
ProbeComplete(out) ==
    /\ pcP = "probing"
    /\ rpc[Probe] = "holding"
    /\ Exit(Probe, out)
    /\ IF out = "raise" \/ RaiseForStatus(out) # "none"
       THEN /\ pcP' = "failed"
            /\ err' = [kind |-> IF out = "raise" THEN "RequestError"
                                ELSE RaiseForStatus(out),
                       req |-> Probe]
            /\ rpc' = AfterExit(Probe, out)
            /\ UNCHANGED <<objs, count, tasks, rref>>
       ELSE LET limit == IF page_sz # 0 THEN page_sz ELSE DEFAULT_PAGE_SZ
                h0 == [objs EXCEPT ![params] = DictSet(@, "limit", limit)]
                fan == FanOut(h0, params, Range(0, remoteCount, limit), << >>)
                n == Len(fan.refs)
            IN  /\ count' = remoteCount
                /\ objs' = fan.heap
                /\ tasks' = [i \in 1..n |-> i]
                /\ rref' = [r \in Req |-> IF r \in 1..n THEN fan.refs[r]
                                          ELSE rref[r]]
                /\ rpc' = [r \in Req |-> IF r \in 1..n THEN "new"
                                         ELSE AfterExit(Probe, out)[r]]
                /\ pcP' = "gathering"
                /\ err' = err
    /\ UNCHANGED <<rate_limit, seen, calls, srcVars, drvVars>>
    /\ UNCHANGED <<filters, filters0, page_sz, remoteCount, params, result,
                   gather_exc, firstDone>>

\* gather is done: a page request raised, or all of them returned; paginate
\* raises the first exception or returns the flattened results.
PaginateFinish ==
    /\ pcP = "gathering"
    /\ \/ gather_exc # 0
       \/ \A r \in SeqToSet(tasks) : rpc[r] = "done"
    /\ LET raised == gather_exc
           task_results == GatherOrder(tasks, firstDone)
           bad == FirstBad(task_results)
       IN  IF raised # 0
           THEN /\ pcP' = "failed"
                /\ err' = [kind |-> "RequestError", req |-> raised]
                /\ result' = result
           ELSE IF bad # 0
           THEN /\ pcP' = "failed"
                /\ err' = [kind |-> ResultsError(rout[bad]), req |-> bad]
                /\ result' = result
           ELSE /\ pcP' = "returned"
                /\ err' = err
                /\ result' = Flatten(task_results)
    /\ UNCHANGED <<semVars, srcVars, drvVars>>
    /\ UNCHANGED <<objs, filters, filters0, page_sz, remoteCount, params, count,
                   tasks,
                   gather_exc, firstDone>>

\* ------------------------------------------------------------ specification
StaleDict == [k \in {"name", "limit", "offset"} |-> 2]

FilterInputs ==
    { <<0, << >> >>, <<1, <<EmptyDict>> >>, <<1, <<[k \in {"name"} |-> 2]>> >>,
      <<1, <<StaleDict>> >> }

PageInputs ==
    { <<c, ps>> \in ((0..MaxCount) \cup {250})
                    \X (0..MaxPageSz) :
        LET limit == IF ps # 0 THEN ps ELSE DEFAULT_PAGE_SZ
        IN  (c + limit - 1) \div limit <= MaxPages }

InitSem(active) ==
    /\ rate_limit \in 1..MaxPermits
    /\ s4_value = rate_limit
    /\ s4_waiters = << >>
    /\ rpc = [r \in Req |-> IF r \in active THEN "new" ELSE "none"]
    /\ rout = [r \in Req |-> "-"]
    /\ rref = [r \in Req |-> 0]
    /\ seen = [r \in Req |-> EmptyDict]
    /\ calls = [r \in Req |-> 0]

InitPag(fis, pis) ==
    /\ \E fi \in fis :
          /\ filters = fi[1]
          /\ objs = fi[2]
          /\ filters0 = ParamsOf(fi[2], fi[1])
    /\ \E pi \in pis : remoteCount = pi[1] /\ page_sz = pi[2]
    /\ pcP = "call"
    /\ params = 0
    /\ count = 0
    /\ tasks = << >>
    /\ result = << >>
    /\ err = NoErr
    /\ gather_exc = 0
    /\ firstDone = 0

InitSrc(args, environ) ==
    /\ initargs \in args
    /\ env \in environ
    /\ client = 0
    /\ clients = << >>
    /\ login_exc = "none"
    /\ logout_exc = "none"
    /\ nlogin = 0
    /\ src_calls = 0

NoArgs == [base_url |-> "None", token |-> "None"]
NoEnv == [NETBOX_ADDR |-> "unset", NETBOX_TOKEN |-> "unset"]

\* The task runner's limit, and a collection before one of its operations is
\* invoked.
InitRun(limits) == task_limit \in limits

InitCol(cols, ops, itemseqs, caches) ==
    /\ col \in cols
    /\ op \in ops
    /\ items \in itemseqs
    /\ cache \in caches
    /\ bpc = "call"
    /\ tstate = [k \in DOMAIN items |-> "none"]
    /\ outcome = [k \in DOMAIN items |-> "-"]
    /\ ncalls = [k \in DOMAIN items |-> 0]
    /\ cb = [k \in DOMAIN items |-> 0]
    /\ batch_exc = "none"
    /\ task_url = [k \in DOMAIN items |-> 0]

NoDiff == [missing |-> {}, changed |-> {}, extra |-> {}]

\* An auditor and its target collection before the first cycle; pc is "idle",
\* or "keyed" when both key sets are given.
InitAud(entries, origins, remotes, targets, raises, pc) ==
    /\ entry \in entries
    /\ origin \in origins
    /\ remote \in remotes
    /\ target_keys \in targets
    /\ iawait_raises \in raises
    /\ source_records = << >>
    /\ ftasks = << >>
    /\ apc = pc
    /\ diffres = NoDiff
    /\ cycle_exc = "none"
    /\ ncycle = 0
    /\ lag_recs = {}
    /\ cache_writers = {}

\* A client of API_RATE_LIMIT permits that sends no request.
InitClientIdle ==
    /\ InitSem({})
    /\ rate_limit = MaxPermits
    /\ InitPag({<<0, << >> >>}, {<<0, 0>>})
    /\ InitSrc({NoArgs}, {NoEnv})

\* No operation of a collection is invoked and no cycle is run.
InitDrvIdle ==
    /\ InitRun({MaxLimit})
    /\ InitCol({"none"}, {"none"}, {<< >>}, {{}})
    /\ InitAud({"none"}, {EmptyDict}, {EmptyDict}, {EmptyDict}, {FALSE}, "idle")

\* One client: a paginate call beside other requesters.
Init ==
    /\ InitSem(Bg)
    /\ InitPag(FilterInputs, PageInputs)
    /\ InitSrc({NoArgs}, {NoEnv})
    /\ InitDrvIdle

Next ==
    \/ PaginateCall
    \/ \E out \in Outcomes : ProbeComplete(out)
    \/ PaginateFinish
    \/ \E r \in Req : Request(r)
    \/ \E r \in Req : Resume(r)
    \/ \E r \in Req, out \in Outcomes : Complete(r, out)
    \/ \E r \in Req, out \in Outcomes : CompleteOther(r, out)

Spec == Init /\ [][Next]_vars

\* ----------------------------------------------- the permit pool on its own
\* Requesters that issue one request after the other through one client; no
\* paginate call is made.
InitFair ==
    /\ InitSem(FairReq)
    /\ InitPag({<<0, << >> >>}, {<<0, 0>>})
    /\ InitSrc({NoArgs}, {NoEnv})
    /\ InitDrvIdle

NextFair ==
    \/ \E r \in FairReq : Request(r)
    \/ \E r \in FairReq : Resume(r)
    \/ \E r \in FairReq, out \in Outcomes : CompleteOther(r, out)

\* The event loop runs every waiter whose future was set, and every
\* underlying call in flight completes.  Nothing obliges a requester to
\* issue a request.
FairSpec ==
    /\ InitFair
    /\ [][NextFair]_vars
    /\ \A r \in FairReq :
          /\ WF_vars(Resume(r))
          /\ WF_vars(\E out \in Outcomes : CompleteOther(r, out))

\* ------------------------------------------------- one paginate call alone
\* One paginate call through a client that nobody else uses: the probe and
\* then the page requests, more of them than permits.
InitTerm ==
    /\ InitSem({})
    /\ InitPag(FilterInputs, PageInputs)
    /\ InitSrc({NoArgs}, {NoEnv})
    /\ InitDrvIdle

NextTerm ==
    \/ PaginateCall
    \/ \E out \in Outcomes : ProbeComplete(out)
    \/ PaginateFinish
    \/ \E r \in Pages : Request(r)
    \/ \E r \in Pages : Resume(r)
    \/ \E r \in Pages, out \in Outcomes : Complete(r, out)

\* The caller's coroutine and every task run when they can, and every
\* underlying call in flight completes.
TermSpec ==
    /\ InitTerm
    /\ [][NextTerm]_vars
    /\ WF_vars(PaginateCall)
    /\ WF_vars(\E out \in Outcomes : ProbeComplete(out))
    /\ WF_vars(PaginateFinish)
    /\ \A r \in Pages :
          /\ WF_vars(Request(r))
          /\ WF_vars(Resume(r))
          /\ WF_vars(\E out \in Outcomes : Complete(r, out))

\* ------------------------------------------------------------ NetboxSource
\* "x or environ[key]": the argument when it is truthy, else the variable,
\* whose absence raises KeyError.
OrEnvironGet(arg, environ, key) ==
    IF arg \notin {"None", ""} THEN arg
    ELSE IF environ[key] = "unset" THEN "None" ELSE environ[key]
OrEnviron(arg, environ, key) ==
    IF arg \notin {"None", ""} THEN arg
    ELSE IF environ[key] = "unset" THEN "KeyError" ELSE environ[key]

\* NetboxClient.__init__: the exception it raises ("none": it returns) and
\* the new client.
NetboxClientInit(args, environ) ==
    LET url == OrEnviron(args.base_url, environ, "NETBOX_ADDR")
        token == IF url = "KeyError" THEN "KeyError"
                 ELSE OrEnviron(args.token, environ, "NETBOX_TOKEN")
    IN  [exc |-> IF url = "KeyError" \/ token = "KeyError"
                 THEN "RuntimeError" ELSE "none",
         self |-> [base_url |-> <<url, "/api">>,
                   headers |-> [Authorization |-> <<"Token", token>>],
                   is_closed |-> FALSE,
                   api_s4 |-> rate_limit]]

\* NetboxSource.login
Login ==
    /\ nlogin < MaxLogins
    /\ nlogin' = nlogin + 1
    /\ LET c == NetboxClientInit(initargs, env)
       IN  /\ login_exc' = c.exc
           /\ IF c.exc # "none"
              THEN UNCHANGED <<client, clients>>
              ELSE /\ clients' = Append(clients, c.self)
                   /\ client' = Len(clients')
    /\ UNCHANGED <<env, initargs, logout_exc, src_calls, semVars, pagVars, drvVars>>

\* NetboxSource.logout: self.client.aclose()
LogoutAll ==
    /\ IF client = 0
       THEN /\ logout_exc' = "AttributeError"
            /\ clients' = clients
       ELSE /\ logout_exc' = "none"
            /\ clients' = [i \in DOMAIN clients |->
                              [clients[i] EXCEPT !.is_closed = TRUE]]
    /\ UNCHANGED <<env, initargs, client, login_exc, nlogin, src_calls,
                   semVars, pagVars, drvVars>>
Logout ==
    /\ IF client = 0
       THEN /\ logout_exc' = "AttributeError"
            /\ clients' = clients
       ELSE /\ logout_exc' = "none"
            /\ clients' = [clients EXCEPT ![client].is_closed = TRUE]
    /\ UNCHANGED <<env, initargs, client, login_exc, nlogin, src_calls,
                   semVars, pagVars, drvVars>>

\* NetboxSource.is_connected
is_connected_unless_none == client # 0
is_connected == IF client = 0 THEN FALSE ELSE ~clients[client].is_closed

\* A request is sent through the source's client.
SourceRequest ==
    /\ is_connected
    /\ src_calls < MaxSrcCalls
    /\ src_calls' = src_calls + 1
    /\ UNCHANGED <<env, initargs, client, clients, login_exc, logout_exc,
                   nlogin, semVars, pagVars, drvVars>>

\* The program changes its environment.
SetEnv(key, value) ==
    /\ env[key] # value
    /\ env' = [env EXCEPT ![key] = value]
    /\ UNCHANGED <<initargs, client, clients, login_exc, logout_exc, nlogin,
                   src_calls, semVars, pagVars, drvVars>>

ArgInputs == [base_url : {"None", "", "url"}, token : {"None", "", "tok"}]
EnvInputs == [NETBOX_ADDR : {"unset", "", "url"},
              NETBOX_TOKEN : {"unset", "", "tok"}]

InitSource ==
    /\ InitSem({})
    /\ InitPag({<<0, << >> >>}, {<<0, 0>>})
    /\ InitSrc(ArgInputs, EnvInputs)
    /\ InitDrvIdle

NextSource ==
    \/ Login
    \/ Logout
    \/ SourceRequest
    \/ \E value \in {"unset", "", "url"} : SetEnv("NETBOX_ADDR", value)
    \/ \E value \in {"unset", "", "tok"} : SetEnv("NETBOX_TOKEN", value)

SourceSpec == InitSource /\ [][NextSource]_vars

\* ------------------------------------------- the collections' operations
\* add_items, update_items and delete_items of the collections (create_items,
\* update_items and remove_extra of the port-channel collection).  An item's
\* field is "hit" when the lookup the operation builds resolves it, "miss"
\* when it does not, and "absent" when the item has no such field.
Cols == {"devices", "interfaces", "ipaddrs", "sites", "portchans"}
Ops == {"add", "update", "delete"}
Known == {"hit"}

Hit == [model |-> "hit", site |-> "hit", os_name |-> "hit", ipaddr |-> "hit",
        interface |-> "hit", hostname |-> "hit"]
ItemInputs ==
    { Hit,
      [Hit EXCEPT !.model = "miss"],
      [Hit EXCEPT !.os_name = "miss"],
      [Hit EXCEPT !.site = "miss", !.ipaddr = "miss", !.interface = "miss",
                  !.hostname = "miss"],
      [Hit EXCEPT !.ipaddr = "absent", !.interface = "absent"] }
ItemSeqs == UNION {[1..n -> ItemInputs] : n \in 0..NKeys}

\* The operations that raise NotImplementedError.
Unsupported(c, o) ==
    \/ c = "devices" /\ o = "delete"
    \/ c = "sites" /\ o \in {"update", "delete"}

\* NetboxInterfaceCollection.fetch raises unless it is given a device filter.
InterfaceFetchRaises(names) == "device" \notin names

\* The filters the callers of that fetch pass: the port-channel operations
\* pass hostname and name, the interface collection's fetch_items passes
\* device and name.
PortChanPrefetchFilters == {"hostname", "name"}
FetchItemsFilters == {"device", "name"}

\* What a task constructor returns for the fields of one key: "None", a
\* request ("task"), or it raises ("raise").
DeviceCreateTaskNoPlatformCheck(fields) ==
    IF fields.model \notin Known THEN "None"
    ELSE IF fields.site \notin Known THEN "None"
    ELSE "task"
DeviceCreateTask(fields) ==
    IF fields.model \notin Known THEN "None"
    ELSE IF fields.site \notin Known THEN "None"
    ELSE IF fields.os_name \notin Known THEN "None"
    ELSE "task"

DeviceUpdateTask(fields) ==
    IF fields.ipaddr # "absent" /\ fields.ipaddr \notin Known THEN "None"
    ELSE IF fields.ipaddr = "absent" THEN "None"
    ELSE "task"

InterfaceCreateTask(fields) ==
    IF fields.hostname \notin Known THEN "None" ELSE "task"

IPAddrCreateTask(fields) ==
    IF fields.interface \notin Known THEN "None" ELSE "task"

IPAddrUpdateTask(fields) ==
    IF fields.interface \notin Known THEN "raise" ELSE "task"

\* The port-channel collection looks the key up in the interface records it
\* fetched before; if_keys holds the keys of the records that were fetched.
PortChanPatch(k, if_keys) == IF k \notin if_keys THEN "raise" ELSE "task"

CreateTask(c, o, k, fields, if_keys) ==
    CASE c = "devices" /\ o = "add" -> DeviceCreateTask(fields)
      [] c = "devices" /\ o = "update" -> DeviceUpdateTask(fields)
      [] c = "interfaces" /\ o = "add" -> InterfaceCreateTask(fields)
      [] c = "ipaddrs" /\ o = "add" -> IPAddrCreateTask(fields)
      [] c = "ipaddrs" /\ o = "update" -> IPAddrUpdateTask(fields)
      [] c = "portchans" -> PortChanPatch(k, if_keys)
      [] OTHER -> "task"

\* NetboxIPAddrCollection.update_items reads the interface field of every
\* change record before anything else and raises when one has none.
IPAddrUpdateRejectsFirstOnly(its) ==
    its # << >> /\ its[1].interface = "absent"
IPAddrUpdateRejects(its) ==
    \E k \in DOMAIN its : its[k].interface = "absent"

\* Collection.source_record_keys: the remote record of every key, with the
\* row id the remote gave it.
SourceRecordKeys == [k \in DOMAIN items |-> [id |-> Len(items) + k]]

\* The row id in the URL of the request a constructor builds: a patch or a
\* delete addresses the row recorded for the key of the task, a post
\* addresses the collection.
TaskUrl(c, o, k, srk) ==
    IF o \in {"update", "delete"} \/ c = "portchans" THEN srk[k].id ELSE 0

\* The lookups an operation fetches before it builds its tasks.
HasPrefetch(c, o) ==
    \/ c \in {"devices", "interfaces", "ipaddrs"} /\ o = "add"
    \/ c = "ipaddrs" /\ o = "update"
    \/ c = "portchans"

\* The operation is invoked and runs to its first await.
Invoke ==
    /\ bpc = "call"
    /\ col \in Cols
    /\ IF Unsupported(col, op)
       THEN bpc' = "raised" /\ batch_exc' = "NotImplementedError"
       ELSE IF col = "devices" /\ op = "update" /\ "ipaddrs" \notin cache
       THEN bpc' = "returned" /\ batch_exc' = batch_exc
       ELSE IF col = "ipaddrs" /\ op = "update" /\ IPAddrUpdateRejects(items)
       THEN bpc' = "raised" /\ batch_exc' = "RuntimeError"
       ELSE /\ bpc' = IF HasPrefetch(col, op) THEN "prefetch" ELSE "build"
            /\ batch_exc' = batch_exc
    /\ UNCHANGED <<col, op, items, cache, tstate, outcome, ncalls, cb>>
    /\ UNCHANGED <<task_url, semVars, pagVars, srcVars, task_limit, audVars>>

\* The lookups answer: out is "ok" or the reason one of them failed.
Prefetch(out) ==
    /\ bpc = "prefetch"
    /\ LET exc ==
             IF col = "portchans"
             THEN IF items # << >> /\ InterfaceFetchRaises(PortChanPrefetchFilters)
                                   /\ iawait_raises
                  THEN "RuntimeError" ELSE "none"
             ELSE IF /\ col = "ipaddrs" /\ op = "add"
                     /\ \E k \in DOMAIN items : items[k].interface = "absent"
                  THEN "KeyError"
             ELSE IF items # << >> /\ RaiseForStatus(out) # "none"
                  THEN RaiseForStatus(out)
             ELSE IF items # << >> /\ out = "raise" THEN "RequestError"
             ELSE "none"
       IN  /\ batch_exc' = exc
           /\ bpc' = IF exc = "none" THEN "build" ELSE "lookup_failed"
    /\ UNCHANGED <<col, op, items, cache, tstate, outcome, ncalls, cb>>
    /\ UNCHANGED <<task_url, semVars, pagVars, srcVars, task_limit, audVars>>

\* The keys of the interface records the port-channel collection holds when
\* it builds its patches: every fetch of them raised.
PortChanIfKeys ==
    IF InterfaceFetchRaises(PortChanPrefetchFilters) THEN {} ELSE DOMAIN items

\* Source.update, first part: the constructor is invoked for every key; None
\* is a neutral outcome and nothing is scheduled, an error is that key's
\* outcome, a request is scheduled.
Constructed(res, k) ==
    CASE res[k] = "None" -> "skipped"
      [] res[k] = "raise" -> "settled"
      [] OTHER -> "pending"

Dispatch ==
    /\ bpc = "build"
    /\ LET res == [k \in DOMAIN items |->
                      CreateTask(col, op, k, items[k], PortChanIfKeys)]
       IN  /\ tstate' = [k \in DOMAIN items |-> Constructed(res, k)]
           /\ outcome' = [k \in DOMAIN items |->
                             CASE res[k] = "None" -> "neutral"
                               [] res[k] = "raise" -> "error"
                               [] OTHER -> "-"]
           /\ task_url' = [k \in DOMAIN items |->
                         IF res[k] = "task"
                         THEN TaskUrl(col, op, k, SourceRecordKeys) ELSE 0]
    /\ bpc' = "dispatch"
    /\ UNCHANGED <<col, op, items, cache, ncalls, cb, batch_exc>>
    /\ UNCHANGED <<semVars, pagVars, srcVars, task_limit, audVars>>

\* The runner starts a task while fewer than limit are executing.
CanStartOneMore(n, lim) == n <= lim
CanStart(n, lim) == n < lim

Executing == {k \in DOMAIN items : tstate[k] = "running"}

TaskStart(k) ==
    /\ bpc = "dispatch"
    /\ tstate[k] = "pending"
    /\ CanStart(Cardinality(Executing), task_limit)
    /\ tstate' = [tstate EXCEPT ![k] = "running"]
    /\ ncalls' = [ncalls EXCEPT ![k] = @ + 1]
    /\ UNCHANGED <<col, op, items, cache, bpc, outcome, cb, batch_exc>>
    /\ UNCHANGED <<task_url, semVars, pagVars, srcVars, task_limit, audVars>>

\* A task's request ends: answered, rejected by the remote, or raised.
TaskOutcome(out) ==
    CASE out = "ok" -> "ok"
      [] out = "status" -> "rejected"
      [] OTHER -> "error"

TaskComplete(k, out) ==
    /\ bpc = "dispatch"
    /\ tstate[k] = "running"
    /\ tstate' = [tstate EXCEPT ![k] = "settled"]
    /\ outcome' = [outcome EXCEPT ![k] = TaskOutcome(out)]
    /\ UNCHANGED <<col, op, items, cache, bpc, ncalls, cb, batch_exc>>
    /\ UNCHANGED <<task_url, semVars, pagVars, srcVars, task_limit, audVars>>

\* Source.update, last part: after every task settled the callback is
\* invoked once per key.
Settled == \A k \in DOMAIN items : tstate[k] \in {"skipped", "settled"}

Callback(k) ==
    /\ bpc = "dispatch"
    /\ Settled
    /\ cb[k] = 0
    /\ cb' = [cb EXCEPT ![k] = 1]
    /\ UNCHANGED <<col, op, items, cache, bpc, tstate, outcome, ncalls,
                   batch_exc>>
    /\ UNCHANGED <<task_url, semVars, pagVars, srcVars, task_limit, audVars>>

Return ==
    /\ bpc = "dispatch"
    /\ Settled
    /\ \A k \in DOMAIN items : cb[k] = 1
    /\ bpc' = "returned"
    /\ UNCHANGED <<col, op, items, cache, tstate, outcome, ncalls, cb,
                   batch_exc>>
    /\ UNCHANGED <<task_url, semVars, pagVars, srcVars, task_limit, audVars>>

InitBatch ==
    /\ InitClientIdle
    /\ InitRun(1..MaxLimit)
    /\ InitCol(Cols, Ops, ItemSeqs, {{}, {"ipaddrs"}})
    /\ InitAud({"none"}, {EmptyDict}, {EmptyDict}, {EmptyDict},
               IF col = "portchans" THEN BOOLEAN ELSE {FALSE}, "idle")

NextBatch ==
    \/ Invoke
    \/ \E out \in Outcomes : Prefetch(out)
    \/ Dispatch
    \/ \E k \in DOMAIN items : TaskStart(k)
    \/ \E k \in DOMAIN items, out \in Outcomes : TaskComplete(k, out)
    \/ \E k \in DOMAIN items : Callback(k)
    \/ Return

BatchSpec == InitBatch /\ [][NextBatch]_vars


\* ----------------------------------------------- the reconciliation cycle
\* The Fetching step of a cycle, for a collection that is fetched device by
\* device: NetboxWithDeviceAuditor.fetch_target over the interfaces
\* collection, and fetch_keys of the port-channel collection.  A key is
\* (hostname, interface name); the remote holds a value for each of its keys:
\* the description of the interface, or the name of the LAG it belongs to.
Hosts == 1..NHosts
IfNames == {1, 2}
IfKeys == Hosts \X IfNames
Vals == {1, 2}

KeyOrd(k) == k[1] * (Cardinality(IfNames) + 1) + k[2]

SmallMaps(K, V, n) ==
    UNION {[D -> V] : D \in {S \in SUBSET K : Cardinality(S) <= n}}

\* The elements of a set of numbers, and of a set of keys, in ascending
\* order.
RECURSIVE SortInts(_)
SortInts(S) ==
    IF S = {} THEN << >>
    ELSE LET x == CHOOSE y \in S : \A z \in S : y <= z
         IN  <<x>> \o SortInts(S \ {x})

SortKeys(S) ==
    LET ns == SortInts({KeyOrd(k) : k \in S})
    IN  [i \in 1..Len(ns) |-> CHOOSE k \in S : KeyOrd(k) = ns[i]]

OriginItem(e, k, v) ==
    IF e = "fetch_keys"
    THEN [hostname |-> k[1], interface |-> k[2], portchan |-> v]
    ELSE [hostname |-> k[1], interface |-> k[2], description |-> v]

OriginInputs(e) ==
    { [k \in DOMAIN m |-> OriginItem(e, k, m[k])] :
          m \in SmallMaps(IfKeys, {1}, MaxItems) }
\* The remote of an origin: it holds the origin's keys, or one key less or
\* more, each with the same value.
RemoteInputs(o) ==
    { r \in SmallMaps(IfKeys, Vals, MaxItems) :
          /\ Cardinality((DOMAIN r \ DOMAIN o) \cup (DOMAIN o \ DOMAIN r)) <= 1
          /\ \A k \in DOMAIN r, j \in DOMAIN r : r[k] = r[j] }

\* The records the remote returns for /dcim/interfaces/?device=<device>.
InterfaceRecs(rem, device) ==
    LET ks == SortKeys({k \in DOMAIN rem : k[1] = device})
    IN  [i \in 1..Len(ks) |->
            [device |-> device, name |-> ks[i][2], description |-> rem[ks[i]]]]

\* The LAG records the remote returns for device, type=lag and name, and the
\* member interfaces of a LAG, each tagged with its LAG.
LagRecs(rem, device, name) ==
    IF \E k \in DOMAIN rem : k[1] = device /\ rem[k] = name
    THEN {<<device, name>>} ELSE {}
MemberRecs(rem, device, name) ==
    LET ks == SortKeys({k \in DOMAIN rem : k[1] = device /\ rem[k] = name})
    IN  [i \in 1..Len(ks) |->
            [device |-> device, name |-> ks[i][2], lag |-> name]]

\* itemize of the two collections.
InterfaceItemize(rec) ==
    [hostname |-> rec.device, interface |-> rec.name,
     description |-> rec.description]
PortChanItemize(rec) ==
    [hostname |-> rec.device, interface |-> rec.name, portchan |-> rec.lag]
Itemize(e, rec) ==
    IF e = "fetch_keys" THEN PortChanItemize(rec) ELSE InterfaceItemize(rec)

\* make_keys: the key -> item map of the records; a later record of the
\* same key overwrites an earlier one.
MakeKeysOf(e, recs) ==
    LET key(i) == <<recs[i].device, recs[i].name>>
        ks == {key(i) : i \in 1..Len(recs)}
        last(k) == CHOOSE i \in 1..Len(recs) :
                      /\ key(i) = k
                      /\ \A j \in 1..Len(recs) : key(j) = k => j <= i
    IN  [k \in ks |-> Itemize(e, recs[last(k)])]

\* diff(origin, target)
DiffChangedAll(o, t) ==
    [missing |-> DOMAIN o \ DOMAIN t,
     extra |-> DOMAIN t \ DOMAIN o,
     changed |-> DOMAIN o \cap DOMAIN t]
DiffExtraAll(o, t) ==
    [missing |-> DOMAIN o \ DOMAIN t,
     extra |-> DOMAIN t,
     changed |-> {k \in DOMAIN o \cap DOMAIN t : o[k] # t[k]}]
Diff(o, t) ==
    [missing |-> DOMAIN o \ DOMAIN t,
     extra |-> DOMAIN t \ DOMAIN o,
     changed |-> {k \in DOMAIN o \cap DOMAIN t : o[k] # t[k]}]

\* fetch_target: the hostnames of the origin items, one fetch for each.
DeviceTasksPerItem(o) ==
    LET ks == SortKeys(DOMAIN o)
    IN  [i \in 1..Len(ks) |-> o[ks[i]].hostname]
DeviceTasks(o) == SortInts({o[k].hostname : k \in DOMAIN o})

NewTask(device, name, st) ==
    [device |-> device, name |-> name, st |-> st, cause |-> "-", exc |-> "none"]

FetchTarget ==
    /\ apc = "idle"
    /\ entry = "fetch_target"
    /\ ncycle < MaxCycles
    /\ LET devices == DeviceTasks(origin)
       IN  ftasks' = [i \in 1..Len(devices) |-> NewTask(devices[i], 0, "pending")]
    /\ apc' = "fetching"
    /\ ncycle' = ncycle + 1
    /\ cycle_exc' = "none"
    /\ cache_writers' = {}
    /\ UNCHANGED <<origin, remote, iawait_raises, entry, source_records,
                   target_keys, diffres, lag_recs>>
    /\ UNCHANGED <<semVars, pagVars, srcVars, task_limit, colVars>>

\* NetboxPortChanCollection.fetch_keys: one fetch per item, all started by
\* gather.
FetchKeys ==
    /\ apc = "idle"
    /\ entry = "fetch_keys"
    /\ ncycle < MaxCycles
    /\ LET ks == SortKeys(DOMAIN origin)
       IN  ftasks' = [i \in 1..Len(ks) |->
                         NewTask(origin[ks[i]].hostname,
                                 origin[ks[i]].interface, "running")]
    /\ apc' = "fetching"
    /\ ncycle' = ncycle + 1
    /\ cycle_exc' = "none"
    /\ cache_writers' = {}
    /\ UNCHANGED <<origin, remote, iawait_raises, entry, source_records,
                   target_keys, diffres, lag_recs>>
    /\ UNCHANGED <<semVars, pagVars, srcVars, task_limit, colVars>>

Fetching(ts) == {t \in DOMAIN ts : ts[t].st \in {"running", "members"}}

\* The runner starts a fetch: NetboxInterfaceCollection.fetch runs up to its
\* paginate call.
FetchStart(t) ==
    /\ apc = "fetching"
    /\ ftasks[t].st = "pending"
    /\ CanStart(Cardinality(Fetching(ftasks)), task_limit)
    /\ IF InterfaceFetchRaises({"device"})
       THEN /\ ftasks' = [ftasks EXCEPT ![t].st = "done",
                                        ![t].cause = "filter",
                                        ![t].exc = "RuntimeError"]
            /\ IF iawait_raises
               THEN apc' = "aborted" /\ cycle_exc' = "RuntimeError"
               ELSE UNCHANGED <<apc, cycle_exc>>
       ELSE /\ ftasks' = [ftasks EXCEPT ![t].st = "running"]
            /\ UNCHANGED <<apc, cycle_exc>>
    /\ UNCHANGED <<origin, remote, iawait_raises, entry, source_records,
                   target_keys, diffres, ncycle, lag_recs, cache_writers>>
    /\ UNCHANGED <<semVars, pagVars, srcVars, task_limit, colVars>>

\* How a paginate call ends: it returns, its probe is answered with a
\* non-success status, one of its pages is, or a request raises.
FetchCauses == {"ok", "probe_status", "page_status", "raise"}
PaginateExc(cause) ==
    CASE cause = "ok" -> "none"
      [] cause = "probe_status" -> RaiseForStatus("status")
      [] cause = "page_status" -> ResultsError("status")
      [] OTHER -> "RequestError"

\* self.source_records.extend(records): one call, with no await in it.
ExtendRebinding(list, block) == block
Extend(list, block) == list \o block

\* NetboxInterfaceCollection.fetch: paginate ends and its records are
\* appended to source_records.
FetchComplete(t, cause) ==
    /\ apc = "fetching"
    /\ entry = "fetch_target"
    /\ ftasks[t].st = "running"
    /\ LET recs == InterfaceRecs(remote, ftasks[t].device)
           exc == PaginateExc(cause)
       IN  /\ cause = "page_status" => recs # << >>
           /\ ftasks' = [ftasks EXCEPT ![t].st = "done", ![t].cause = cause,
                                       ![t].exc = exc]
           /\ source_records' = IF exc = "none"
                                THEN Extend(source_records, recs)
                                ELSE source_records
           /\ IF exc # "none" /\ iawait_raises
              THEN apc' = "aborted" /\ cycle_exc' = exc
              ELSE UNCHANGED <<apc, cycle_exc>>
    /\ UNCHANGED <<origin, remote, iawait_raises, entry, target_keys, diffres,
                   ncycle, lag_recs, cache_writers>>
    /\ UNCHANGED <<semVars, pagVars, srcVars, task_limit, colVars>>

\* self.cache[self] = dict(); self.cache[self]["lag_recs"] = {...}: the
\* keys of the LAG cache after a fetch that listed lags wrote it.
CacheMerged(old, lags) == old \cup lags
CacheAfter(old, lags) == lags

\* NetboxPortChanCollection.fetch: paginate ends, the LAG cache is replaced
\* by the LAG records of this device.
FetchLags(t, cause) ==
    /\ apc = "fetching"
    /\ entry = "fetch_keys"
    /\ ftasks[t].st = "running"
    /\ LET lags == LagRecs(remote, ftasks[t].device, ftasks[t].name)
           exc == PaginateExc(cause)
       IN  /\ cause = "page_status" => lags # {}
           /\ IF exc # "none"
              THEN /\ ftasks' = [ftasks EXCEPT ![t].st = "done",
                                               ![t].cause = cause,
                                               ![t].exc = exc]
                   /\ apc' = "aborted"
                   /\ cycle_exc' = exc
                   /\ UNCHANGED <<lag_recs, cache_writers>>
              ELSE /\ ftasks' = [ftasks EXCEPT
                                    ![t].st = IF lags = {} THEN "done"
                                              ELSE "members",
                                    ![t].cause = cause]
                   /\ lag_recs' = CacheAfter(lag_recs, lags)
                   /\ cache_writers' = cache_writers \cup {t}
                   /\ UNCHANGED <<apc, cycle_exc>>
    /\ UNCHANGED <<origin, remote, iawait_raises, entry, source_records,
                   target_keys, diffres, ncycle>>
    /\ UNCHANGED <<semVars, pagVars, srcVars, task_limit, colVars>>

\* NetboxPortChanCollection.fetch: the members of the LAG are fetched and
\* appended to source_records.
FetchMembers(t, out) ==
    /\ apc = "fetching"
    /\ entry = "fetch_keys"
    /\ ftasks[t].st = "members"
    /\ LET exc == IF out = "raise" THEN "RequestError" ELSE ResultsError(out)
       IN  /\ ftasks' = [ftasks EXCEPT ![t].st = "done", ![t].exc = exc,
                            ![t].cause = IF out = "ok" THEN "ok" ELSE out]
           /\ IF exc # "none"
              THEN /\ apc' = "aborted"
                   /\ cycle_exc' = exc
                   /\ UNCHANGED source_records
              ELSE /\ source_records' = source_records \o
                          MemberRecs(remote, ftasks[t].device, ftasks[t].name)
                   /\ UNCHANGED <<apc, cycle_exc>>
    /\ UNCHANGED <<origin, remote, iawait_raises, entry, target_keys, diffres,
                   ncycle, lag_recs, cache_writers>>
    /\ UNCHANGED <<semVars, pagVars, srcVars, task_limit, colVars>>

\* fetch_target, after iawait returned: make_keys.
MakeKeys ==
    /\ apc = "fetching"
    /\ \A t \in DOMAIN ftasks : ftasks[t].st = "done"
    /\ target_keys' = MakeKeysOf(entry, source_records)
    /\ apc' = "keyed"
    /\ UNCHANGED <<origin, remote, iawait_raises, entry, source_records,
                   ftasks, diffres, cycle_exc, ncycle, lag_recs,
                   cache_writers>>
    /\ UNCHANGED <<semVars, pagVars, srcVars, task_limit, colVars>>

\* The Diffing step.
Diffing ==
    /\ apc = "keyed"
    /\ diffres' = Diff(origin, target_keys)
    /\ apc' = "diffed"
    /\ UNCHANGED <<origin, remote, iawait_raises, entry, source_records,
                   ftasks, target_keys, cycle_exc, ncycle, lag_recs,
                   cache_writers>>
    /\ UNCHANGED <<semVars, pagVars, srcVars, task_limit, colVars>>

\* The driver is idle again and may run another cycle on the same
\* collection instance.
Recycle ==
    /\ apc \in {"diffed", "aborted"}
    /\ entry # "none"
    /\ ncycle < MaxCycles
    /\ apc' = "idle"
    /\ UNCHANGED <<origin, remote, iawait_raises, entry, source_records,
                   ftasks, target_keys, diffres, cycle_exc, ncycle, lag_recs,
                   cache_writers>>
    /\ UNCHANGED <<semVars, pagVars, srcVars, task_limit, colVars>>

InitCycle ==
    /\ InitClientIdle
    /\ InitRun(1..MaxLimit)
    /\ InitCol({"none"}, {"none"}, {<< >>}, {{}})
    /\ \E e \in {"fetch_target", "fetch_keys"} :
          \E o \in OriginInputs(e) :
              InitAud({e}, {o}, RemoteInputs(o), {EmptyDict}, BOOLEAN, "idle")

\* One cycle: the Fetching step and the diff.
NextFetch ==
    \/ FetchTarget
    \/ FetchKeys
    \/ \E t \in DOMAIN ftasks : FetchStart(t)
    \/ \E t \in DOMAIN ftasks, cause \in FetchCauses : FetchComplete(t, cause)
    \/ \E t \in DOMAIN ftasks, cause \in FetchCauses : FetchLags(t, cause)
    \/ \E t \in DOMAIN ftasks, out \in Outcomes : FetchMembers(t, out)
    \/ MakeKeys
    \/ Diffing

FetchSpec == InitCycle /\ [][NextFetch]_vars

\* Cycle after cycle on the same auditor and collection instance.
NextCycle ==
    \/ FetchTarget
    \/ FetchKeys
    \/ \E t \in DOMAIN ftasks : FetchStart(t)
    \/ \E t \in DOMAIN ftasks, cause \in FetchCauses : FetchComplete(t, cause)
    \/ \E t \in DOMAIN ftasks, cause \in FetchCauses : FetchLags(t, cause)
    \/ \E t \in DOMAIN ftasks, out \in Outcomes : FetchMembers(t, out)
    \/ MakeKeys
    \/ Diffing
    \/ Recycle

CycleSpec == InitCycle /\ [][NextCycle]_vars

\* ------------------------------------------------------ the diff on its own
DiffKeys == {"A", "B", "C"}
DiffVals == 1..MaxVal
DiffInputs == SmallMaps(DiffKeys, DiffVals, Cardinality(DiffKeys))

InitDiff ==
    /\ InitClientIdle
    /\ InitRun({MaxLimit})
    /\ InitCol({"none"}, {"none"}, {<< >>}, {{}})
    /\ InitAud({"none"}, DiffInputs, {EmptyDict}, DiffInputs, {FALSE}, "keyed")

DiffSpec == InitDiff /\ [][Diffing]_vars


\* ================================================================== claims
InFlight == {r \in Req : rpc[r] = "holding"}
Sent(r) == rpc[r] \in {"holding", "done"}
PageSize == IF page_sz = 0 THEN DEFAULT_PAGE_SZ ELSE page_sz
Ended == pcP \in {"returned", "failed"}
PageReqs == SeqToSet(tasks)
HasRaised(r) == rpc[r] = "done" /\ rout[r] = "raise"

\* C1: in every reachable state the number of underlying calls in flight
\* (page fetches, the probe, other requesters) is at most the size N of the
\* permit pool.
C1_InFlightAtMostN == Cardinality(InFlight) <= rate_limit

\* Both permits of a pool of 2 are held while two more requests wait.
C1_Witness ==
    /\ rate_limit = 2
    /\ Cardinality(InFlight) = 2
    /\ Len(s4_waiters) = 2

\* C2: every request in flight holds exactly one permit and gives it back
\* when its call ends, by a response or by an exception: the free permits
\* are N minus the calls in flight, so with no call in flight all N are free.
C2_NoPermitLeaked ==
    /\ s4_value = rate_limit - Cardinality(InFlight)
    /\ InFlight = {} => s4_value = rate_limit

\* No call is in flight after one page request returned and another raised.
C2_Witness ==
    /\ InFlight = {}
    /\ s4_value = rate_limit
    /\ \E r1, r2 \in PageReqs :
          /\ rpc[r1] = "done" /\ rout[r1] = "raise"
          /\ rpc[r2] = "done" /\ rout[r2] = "ok"

\* C3: a paginate call that returns has sent exactly one probe, carrying the
\* caller's filters plus limit=1, and exactly ceil(count/page_size) page
\* requests, each with one underlying call, and returns count records.
C3_ProbeAndPages ==
    pcP = "returned" =>
        /\ calls[Probe] = 1
        /\ seen[Probe] = DictSet(filters0, "limit", 1)
        /\ Len(tasks) = (remoteCount + PageSize - 1) \div PageSize
        /\ \A r \in PageReqs : calls[r] = 1
        /\ \A r \in Pages \ PageReqs : rpc[r] = "none" /\ calls[r] = 0
        /\ Len(result) = remoteCount

\* paginate returned three pages, the last of them partial.
C3_Witness ==
    /\ pcP = "returned"
    /\ Len(tasks) = 3
    /\ remoteCount % PageSize # 0

\* C4: page request i of a paginate call owns a copy of the parameters with
\* limit = page_size and offset = i * page_size (i from 0) that never
\* changes; what the transport reads when it sends the call is that copy,
\* so the offsets observed are pairwise distinct, and are 0, 100, 200 for
\* count = 250 and page_size = 100.
C4_OwnCopies ==
    /\ \A i \in 1..Len(tasks) :
          LET r == tasks[i]
              want == DictSet(DictSet(filters0, "limit", PageSize),
                              "offset", (i - 1) * PageSize)
          IN  /\ objs[rref[r]] = want
              /\ Sent(r) => seen[r] = want
    /\ \A r1, r2 \in PageReqs :
          (Sent(r1) /\ Sent(r2) /\ r1 # r2)
              => seen[r1]["offset"] # seen[r2]["offset"]
    /\ (/\ remoteCount = 250
        /\ PageSize = 100
        /\ rout[Probe] = "ok"
        /\ \A r \in PageReqs : Sent(r))
          => {seen[r]["offset"] : r \in PageReqs} = {0, 100, 200}

\* The three page requests of count = 250, page_size = 100 were all sent,
\* one of them after waiting for a permit behind a later page.
C4_Witness ==
    /\ remoteCount = 250
    /\ PageSize = 100
    /\ Len(tasks) = 3
    /\ \A r \in PageReqs : rpc[r] = "done"
    /\ firstDone # tasks[1]

\* C5: paginate returns the records of page 0, then those of page 1, and so
\* on, whatever the order in which the page requests completed: the records
\* 1..count of the remote in their order.
C5_PageOrder ==
    pcP = "returned" => result = [i \in 1..remoteCount |-> i]

\* paginate returned although a later page completed before an earlier one.
C5_Witness ==
    /\ pcP = "returned"
    /\ Len(tasks) >= 2
    /\ firstDone # tasks[1]
    /\ Len(result) >= 2

\* C6: when the probe or a page request of a paginate call is answered with
\* a non-success status (and no request raised), the call ends by raising
\* that status error and returns no results.
C6_AbortsWithStatusError ==
    (/\ Ended
     /\ \E r \in {Probe} \cup PageReqs :
           rpc[r] = "done" /\ RaiseForStatus(rout[r]) # "none"
     /\ \A r \in {Probe} \cup PageReqs : rout[r] # "raise")
        => /\ pcP = "failed"
           /\ err.kind = "HTTPStatusError"
           /\ RaiseForStatus(rout[err.req]) # "none"
           /\ result = << >>

\* C7: when the probe reports count = 0, no page request is ever created or
\* sent, and paginate returns the empty sequence.
C7_NoPagesForZero ==
    (remoteCount = 0 /\ rout[Probe] = "ok") =>
        /\ tasks = << >>
        /\ \A r \in Pages : rpc[r] = "none" /\ calls[r] = 0
        /\ pcP \in {"gathering", "returned"}
        /\ pcP = "returned" => result = << >>

\* paginate returned for an empty remote.
C7_Witness ==
    /\ pcP = "returned"
    /\ count = 0
    /\ remoteCount = 0
    /\ calls[Probe] = 1

\* C8: a request performs exactly one underlying call whatever its outcome,
\* and the outcome reaches the caller of paginate unchanged: an exception of
\* a request as that exception, a non-success status as the status error of
\* the request that received it.
C8_OneCallFailureUnchanged ==
    /\ \A r \in {Probe} \cup Pages : rpc[r] = "done" => calls[r] = 1
    /\ Ended =>
          /\ (\E r \in {Probe} \cup PageReqs : HasRaised(r))
                => /\ pcP = "failed"
                   /\ err.kind = "RequestError"
                   /\ HasRaised(err.req)
          /\ (/\ \A r \in {Probe} \cup PageReqs : ~HasRaised(r)
              /\ \E r \in {Probe} \cup PageReqs :
                    rpc[r] = "done" /\ rout[r] = "status")
                => /\ pcP = "failed"
                   /\ err.kind = "HTTPStatusError"

\* C9: under fair scheduling, and with every call in flight completing,
\* every request that waits for a permit eventually holds one.
C9_NoStarvation ==
    \A r \in FairReq : (rpc[r] = "waiting") ~> (rpc[r] = "holding")

\* C10: a login without a base address (no truthy base_url argument and no
\* NETBOX_ADDR) or without a token (no truthy token argument and no
\* NETBOX_TOKEN) raises the configuration error, creates no client, leaves
\* the source's client as it was and sends no request.
ConfigMissing ==
    \/ initargs.base_url \in {"None", ""} /\ env.NETBOX_ADDR = "unset"
    \/ initargs.token \in {"None", ""} /\ env.NETBOX_TOKEN = "unset"

MissingXref(c, o, fields) ==
    \/ c = "devices" /\ o = "add"
         /\ "miss" \in {fields.model, fields.site, fields.os_name}
    \/ c = "devices" /\ o = "update" /\ fields.ipaddr \in {"miss", "absent"}
    \/ c = "interfaces" /\ o = "add" /\ fields.hostname = "miss"
    \/ c = "ipaddrs" /\ o = "add" /\ fields.interface = "miss"

BatchKeys == DOMAIN items

\* Source.update has invoked the constructor for the keys of the batch.
ConstructorsInvoked ==
    /\ bpc \in {"dispatch", "returned"}
    /\ \A k \in BatchKeys : tstate[k] # "none"

\* C11: a key whose constructor skips it (a missing device-type, site,
\* platform, device or interface cross-reference) has no network call issued
\* by a task and a neutral outcome, and the keys of the batch that are not
\* skipped are still dispatched: each has its own call and outcome when the
\* operation returns.
C11_SkipIsNeutral ==
    ConstructorsInvoked =>
        \A k \in BatchKeys :
            IF MissingXref(col, op, items[k])
            THEN /\ tstate[k] = "skipped"
                 /\ ncalls[k] = 0
                 /\ outcome[k] = "neutral"
            ELSE /\ tstate[k] # "skipped"
                 /\ bpc = "returned" /\ CreateTask(col, op, k, items[k], PortChanIfKeys) = "task"
                      => ncalls[k] = 1 /\ outcome[k] \in {"ok", "rejected", "error"}

\* A batch returned in which one key was skipped for its missing platform
\* and another key's request was sent and answered.
C11_Witness ==
    /\ bpc = "returned"
    /\ col = "devices" /\ op = "add"
    /\ \E k, j \in BatchKeys :
          /\ items[k].os_name = "miss" /\ items[k].model = "hit"
          /\ outcome[k] = "neutral" /\ ncalls[k] = 0
          /\ ncalls[j] = 1 /\ outcome[j] = "ok"

\* C12: an operation invoked with a non-empty item map and a callback that
\* returns has invoked the callback exactly once for every key of the map,
\* dispatched or skipped.
C12_CallbackOncePerKey ==
    /\ \A k \in BatchKeys : cb[k] <= 1
    /\ bpc = "returned" /\ items # << >> => \A k \in BatchKeys : cb[k] = 1

\* One key's task failed: the remote rejected it, it raised, or building the
\* key's request raised.
BuildFails(k) ==
    /\ col = "ipaddrs" /\ op = "update"
    /\ items[k].interface \in {"absent", "miss"}
FailedKey(k) == outcome[k] \in {"rejected", "error"} \/ BuildFails(k)

\* C13: when an operation has ended, the failure of one key's task has not
\* kept any other key of the batch from getting its own outcome.
C13_FailureIsolated ==
    bpc \in {"returned", "raised"} =>
        \A k \in BatchKeys, j \in BatchKeys :
            FailedKey(k) /\ j # k => outcome[j] # "-"

\* C15: an unsupported operation invoked with a non-empty partition raises
\* the not-implemented error and issues no network call, and a supported
\* operation that returns for a non-empty partition has an outcome for some
\* key: it has not silently done nothing.
C15_UnsupportedRaises ==
    /\ Unsupported(col, op) /\ items # << >> /\ bpc # "call"
         => /\ bpc = "raised"
            /\ batch_exc = "NotImplementedError"
            /\ \A k \in BatchKeys : ncalls[k] = 0
    /\ ~Unsupported(col, op) /\ items # << >> /\ bpc = "returned"
         => \E k \in BatchKeys : outcome[k] # "-"

\* ----------------------------------------------------------- C14, C16 .. C20
OriginHosts == {origin[k].hostname : k \in DOMAIN origin}
Failed(t) == ftasks[t].exc # "none"

\* C14: the runner never has more than limit of the per-device fetches it
\* was given executing at once.
C14_AtMostLimitExecuting ==
    entry = "fetch_target" => Cardinality(Fetching(ftasks)) <= task_limit

\* The limit binds: as many fetches as the limit allows are executing and
\* another one is still waiting to be started.
C14_Witness ==
    /\ entry = "fetch_target"
    /\ Cardinality(Fetching(ftasks)) = task_limit
    /\ \E t \in DOMAIN ftasks : ftasks[t].st = "pending"

\* C16: a lookup cache is built once, before the concurrent tasks run: of
\* the fetch tasks that are in flight together in one Fetching step, at most
\* one writes the LAG cache.
C16_CachesBuiltOnce ==
    \A t \in cache_writers, u \in cache_writers : t = u

\* C17: fetch_target fetches the target once for every distinct hostname of
\* the origin items, and the target keys are made only when every one of
\* these fetches has completed, from the records they left.
C17_FetchPerHostThenKeys ==
    entry = "fetch_target" /\ apc \in {"fetching", "keyed", "diffed", "aborted"} =>
        /\ \A h \in OriginHosts :
              Cardinality({t \in DOMAIN ftasks : ftasks[t].device = h}) = 1
        /\ \A t \in DOMAIN ftasks : ftasks[t].device \in OriginHosts
        /\ apc \in {"keyed", "diffed"} =>
              /\ \A t \in DOMAIN ftasks : ftasks[t].st = "done"
              /\ target_keys = MakeKeysOf(entry, source_records)

\* Two origin items of one device: the device was fetched once, and the keys
\* were made after the fetch of every device had returned its records.
C17_Witness ==
    /\ entry = "fetch_target"
    /\ apc = "keyed"
    /\ \E k \in DOMAIN origin, j \in DOMAIN origin :
          k # j /\ origin[k].hostname = origin[j].hostname
    /\ Cardinality(OriginHosts) = Len(ftasks)
    /\ \A t \in DOMAIN ftasks : ~Failed(t)
    /\ target_keys # EmptyDict

\* The error a failed fetch ends with, as the cycle should report it.
FetchError(cause) ==
    CASE cause \in {"probe_status", "page_status", "status"} -> "HTTPStatusError"
      [] cause = "filter" -> "RuntimeError"
      [] OTHER -> "RequestError"

\* C18: when a fetch of fetch_target's Fetching step has failed, the cycle
\* aborts with that error: the target keys are not made and no diff is
\* computed.
C18_FetchFailureAborts ==
    \A t \in DOMAIN ftasks :
        entry = "fetch_target" /\ apc # "idle" /\ Failed(t) =>
            /\ apc \notin {"keyed", "diffed"}
            /\ apc = "aborted" =>
                  cycle_exc \in {FetchError(ftasks[u].cause) :
                                    u \in {v \in DOMAIN ftasks : Failed(v)}}

\* C19: whenever the keys are made after every fetch of the cycle succeeded,
\* the collection holds the remote's records of the origin's devices once
\* each, in the first cycle run on the collection and in every later one.
C19_NothingSurvivesACycle ==
    /\ entry = "fetch_target"
    /\ apc \in {"keyed", "diffed"}
    /\ \A t \in DOMAIN ftasks : ~Failed(t)
    => /\ Len(source_records) =
             Cardinality({k \in DOMAIN remote : k[1] \in OriginHosts})
       /\ \A i \in DOMAIN source_records, j \in DOMAIN source_records :
             source_records[i] = source_records[j] => i = j

\* C20: after the diff, a key is missing exactly when the origin has it and
\* the target has not, extra exactly when the target has it and the origin
\* has not, and changed exactly when both have it with different items; for
\* origin {A:1, B:2} and target {B:3, C:4} the result is {A}, {B}, {C}.
C20_DiffPartitions ==
    apc = "diffed" =>
        /\ \A k \in DOMAIN origin \cup DOMAIN target_keys \cup DiffKeys :
              LET inO == k \in DOMAIN origin
                  inT == k \in DOMAIN target_keys
              IN  /\ k \in diffres.missing <=> inO /\ ~inT
                  /\ k \in diffres.extra <=> inT /\ ~inO
                  /\ k \in diffres.changed <=>
                        inO /\ inT /\ origin[k] # target_keys[k]
        /\ origin = [k \in {"A", "B"} |-> IF k = "A" THEN 1 ELSE 2]
             /\ target_keys = [k \in {"B", "C"} |-> IF k = "B" THEN 3 ELSE 4]
             => diffres = [missing |-> {"A"}, changed |-> {"B"}, extra |-> {"C"}]

\* The scenario's diff was computed, and so was a diff of two sets with a
\* common key of equal items.
C20_Witness ==
    /\ apc = "diffed"
    /\ origin = [k \in {"A", "B"} |-> IF k = "A" THEN 1 ELSE 2]
    /\ target_keys = [k \in {"B", "C"} |-> IF k = "B" THEN 3 ELSE 4]
    /\ diffres.changed = {"B"}

\* ----------------------------------------------------------- C21 .. C30
DiffUnion == diffres.missing \cup diffres.changed \cup diffres.extra
DiffDisjoint ==
    /\ diffres.missing \cap diffres.changed = {}
    /\ diffres.missing \cap diffres.extra = {}
    /\ diffres.changed \cap diffres.extra = {}
Unchanged ==
    {k \in DOMAIN origin \cap DOMAIN target_keys : origin[k] = target_keys[k]}

\* C21 as stated: the partitions of a diff are pairwise disjoint and the
\* union of their keys is the union of the keys of origin and target.
C21_PartitionsCoverAllKeys ==
    apc = "diffed" =>
        /\ DiffDisjoint
        /\ DiffUnion = DOMAIN origin \cup DOMAIN target_keys

\* C21 as amended: the partitions of a diff are pairwise disjoint and the
\* union of their keys is the union of the keys of origin and target less
\* the keys both hold with equal items; the diff of a set with itself is
\* empty.
C21_PartitionsCoverDiffering ==
    apc = "diffed" =>
        /\ DiffDisjoint
        /\ DiffUnion = (DOMAIN origin \cup DOMAIN target_keys) \ Unchanged
        /\ origin = target_keys => DiffUnion = {}

\* A diff with a missing, a changed and an unchanged key, and the diff of a
\* non-empty set with itself.
C21_Witness ==
    /\ apc = "diffed"
    /\ \/ /\ diffres.missing # {} /\ diffres.changed # {} /\ Unchanged # {}
       \/ /\ origin = target_keys /\ origin # EmptyDict

\* C22 as stated: a fetch of interfaces without a device filter raises
\* before any request, and every caller that pre-fetches interface records
\* passes that filter, so that the pre-fetch of a port-channel operation
\* does not raise and leaves an interface record for every key.
C22_PrefetchSuppliesDevice ==
    /\ \A names \in SUBSET {"device", "hostname", "name"} :
          "device" \notin names => InterfaceFetchRaises(names)
    /\ ~InterfaceFetchRaises(FetchItemsFilters)
    /\ (col = "portchans" /\ items # << >> /\ bpc \notin {"call", "prefetch"})
          => /\ batch_exc # "RuntimeError"
             /\ PortChanIfKeys = DOMAIN items

\* C23 as stated: a port-channel operation constructs no patch task before
\* its pre-fetch of the interface records has completed, and when the task
\* of a key is constructed the records that key needs are available, so that
\* no constructor fails on a lookup.
C23_RecordsAvailableAtConstruction ==
    col = "portchans" =>
        /\ \A k \in DOMAIN items :
              tstate[k] # "none" => bpc \in {"dispatch", "returned"}
        /\ bpc \in {"dispatch", "returned"} =>
              \A k \in DOMAIN items :
                  /\ k \in PortChanIfKeys
                  /\ ~(tstate[k] = "settled" /\ ncalls[k] = 0)

LacksInterface == \E k \in DOMAIN items : items[k].interface = "absent"

\* C24: an update of IP addresses in which a change record has no interface
\* field raises RuntimeError without fetching anything and without building
\* or starting a task; otherwise the patch built for a key addresses the row
\* id recorded for that key.
C24_UpdateAllOrNothing ==
    (col = "ipaddrs" /\ op = "update") =>
        /\ LacksInterface =>
              /\ bpc \in {"call", "raised"}
              /\ bpc = "raised" => batch_exc = "RuntimeError"
              /\ \A k \in DOMAIN items :
                    tstate[k] = "none" /\ ncalls[k] = 0 /\ task_url[k] = 0
        /\ ~LacksInterface =>
              \A k \in DOMAIN items :
                  tstate[k] \in {"pending", "running"} \/ ncalls[k] > 0
                      => task_url[k] = SourceRecordKeys[k].id

\* An update in which the second record has no interface field has raised,
\* and an update of two complete records has sent the patch of its second key.
C24_Witness ==
    /\ col = "ipaddrs" /\ op = "update" /\ Len(items) = 2
    /\ \/ /\ items[1].interface = "hit" /\ items[2].interface = "absent"
          /\ bpc = "raised"
       \/ /\ ~LacksInterface /\ ncalls[2] = 1 /\ task_url[2] = SourceRecordKeys[2].id

LastOffset == ((count - 1) \div PageSize) * PageSize
WrittenToCaller ==
    /\ pcP # "call" => params = filters
    /\ pcP = "returned" =>
          /\ "limit" \in DOMAIN objs[filters]
          /\ objs[filters]["limit"] = PageSize
          /\ count > 0 =>
                /\ "offset" \in DOMAIN objs[filters]
                /\ objs[filters]["offset"] = LastOffset
    /\ ("offset" \in DOMAIN filters0 /\ Sent(Probe)) =>
          /\ "offset" \in DOMAIN seen[Probe]
          /\ seen[Probe]["offset"] = filters0["offset"]
          /\ seen[Probe]["limit"] = 1

\* C25 as stated: paginate works on the mapping its caller passed as
\* filters: when it has returned, that mapping holds the page size as limit
\* and, for a non-zero count, the offset of the last page, and a mapping
\* that held an offset has that offset sent with the probe.
C25_WritesCallersMapping == filters # 0 => WrittenToCaller

\* C25 as amended: the same for a mapping that is not empty; an empty
\* mapping is left as it was.
C25_WritesNonEmptyMapping ==
    /\ (filters # 0 /\ filters0 # EmptyDict) => WrittenToCaller
    /\ (filters # 0 /\ filters0 = EmptyDict) => objs[filters] = EmptyDict

\* paginate has returned two pages or more to a caller whose mapping held a
\* limit and an offset of an earlier call, and both were overwritten.
C25_Witness ==
    /\ pcP = "returned"
    /\ filters # 0
    /\ filters0 = StaleDict
    /\ Len(tasks) >= 2
    /\ objs[filters]["offset"] = LastOffset
    /\ objs[filters]["offset"] # filters0["offset"]
    /\ seen[Probe]["offset"] = filters0["offset"]

AllRequestsDone ==
    /\ Ended
    /\ \A r \in {Probe} \cup Pages : rpc[r] \in {"none", "done"}
    /\ s4_waiters = << >>
    /\ s4_value = rate_limit

\* C26: a paginate call whose page requests outnumber the permits ends, and
\* every one of its requests completes: when every task is run and every
\* underlying call completes, eventually the call has returned or raised,
\* no request is left waiting and every permit is back in the pool.
C26_BatchTerminates == <>[]AllRequestsDone

\* More page requests than permits, every permit taken, and a request that
\* waited has been woken by a release.
C26_Witness ==
    /\ pcP = "gathering"
    /\ Len(tasks) > rate_limit
    /\ \E r \in Pages : rpc[r] = "woken"
    /\ \E r \in Pages : rpc[r] = "done"

LoginStep == nlogin' = nlogin + 1 /\ login_exc' = "none"
LogoutStep ==
    /\ nlogin' = nlogin
    /\ logout_exc' # logout_exc \/ clients' # clients

\* C27: is_connected is false as long as no login has succeeded, true right
\* after every login that succeeds, also one that follows a logout, and
\* false right after every logout.
C27_ConnectedFollowsLoginLogout ==
    /\ [](clients = << >> => ~is_connected)
    /\ [][/\ LoginStep => is_connected'
          /\ LogoutStep => ~is_connected']_vars

\* A login, a logout and a second login: the source is connected again.
C27_Witness ==
    /\ nlogin = 2
    /\ Len(clients) = 2
    /\ clients[1].is_closed
    /\ is_connected

OpenClients == {i \in DOMAIN clients : ~clients[i].is_closed}

\* C28: a login that succeeds adds a new client with a full permit pool of
\* its own, makes it the client of the source and leaves every earlier
\* client as it is; a logout closes the client of the last login and no
\* other.
C28_LoginReplacesLogoutClosesLast ==
    [][/\ LoginStep =>
             /\ Len(clients') = Len(clients) + 1
             /\ client' = Len(clients')
             /\ ~clients'[client'].is_closed
             /\ clients'[client'].api_s4 = rate_limit
             /\ \A i \in DOMAIN clients : clients'[i] = clients[i]
       /\ LogoutStep =>
             /\ client' = client
             /\ \A i \in DOMAIN clients :
                   clients'[i] = IF i = client
                                 THEN [clients[i] EXCEPT !.is_closed = TRUE]
                                 ELSE clients[i]]_vars

\* Two clients were open at once and, after login, login, logout, the first
\* one is still open, out of the source's reach, with its permits.
C28_Witness ==
    /\ Len(clients) = 2
    /\ client = 2
    /\ clients[2].is_closed
    /\ OpenClients = {1}
    /\ clients[1].api_s4 = rate_limit

\* C29: the LAG cache holds LAG records of at most one hostname, and a fetch
\* whose LAG listing is answered leaves in it the LAG records of its own
\* listing and nothing else.
C29_CacheOfOneHostname ==
    /\ [](\A a \in lag_recs, b \in lag_recs : a[1] = b[1])
    /\ [][\A t \in DOMAIN ftasks :
             (t \in cache_writers' /\ t \notin cache_writers) =>
                 lag_recs' = LagRecs(remote, ftasks[t].device, ftasks[t].name)]_vars

\* Two concurrent fetches for two hostnames have both listed a LAG, and the
\* cache holds the LAG of one of them only.
C29_Witness ==
    /\ cache_writers = {1, 2}
    /\ ftasks[1].device # ftasks[2].device
    /\ LagRecs(remote, ftasks[1].device, ftasks[1].name) # {}
    /\ LagRecs(remote, ftasks[2].device, ftasks[2].name) # {}
    /\ Cardinality(lag_recs) = 1

Block(t) == InterfaceRecs(remote, ftasks[t].device)
Succeeded == {t \in DOMAIN ftasks : ftasks[t].st = "done" /\ ftasks[t].exc = "none"}
Orders(S) ==
    {f \in [1..Cardinality(S) -> S] :
        \A i \in DOMAIN f, j \in DOMAIN f : f[i] = f[j] => i = j}
RECURSIVE Blocks(_)
Blocks(f) == IF f = << >> THEN << >> ELSE Block(Head(f)) \o Blocks(Tail(f))
IsPrefix(a, b) == Len(a) <= Len(b) /\ SubSeq(b, 1, Len(a)) = a

\* C30: concurrent fetches of one collection only append to its record
\* list: the completion of a fetch that succeeded adds its whole result as
\* one block at the end, the completion of a fetch that failed adds nothing,
\* and the list of a first cycle is made of the blocks of the fetches that
\* succeeded, one after the other.
C30_FetchAppendsBlocks ==
    /\ [](entry = "fetch_target" /\ ncycle = 1 =>
             \E f \in Orders(Succeeded) : source_records = Blocks(f))
    /\ [][entry = "fetch_target" =>
             /\ IsPrefix(source_records, source_records')
             /\ \A t \in DOMAIN ftasks :
                   (ftasks[t].st = "running" /\ t \in DOMAIN ftasks'
                        /\ ftasks'[t].st = "done") =>
                       source_records' =
                           IF ftasks'[t].exc = "none"
                           THEN source_records \o Block(t)
                           ELSE source_records]_vars

\* Two concurrent fetches with records to return have both completed, the
\* second one first: its block comes first, whole.
C30_Witness ==
    /\ entry = "fetch_target"
    /\ Len(ftasks) = 2
    /\ Succeeded = {1, 2}
    /\ Block(1) # << >>
    /\ Block(2) # << >>
    /\ source_records = Block(2) \o Block(1)

====
